---- MODULE Spec2Model ----
(***************************************************************************)
(* Model of tools/prepare_wrangles.py: fetch -> extract -> normalize ->    *)
(* filter -> deduplicate -> enrich -> write, once per configured URL.      *)
(*                                                                         *)
(* Representation.  A Python str is a sequence of tokens (each token a     *)
(* run of characters), so that concatenation, join, startswith, replace    *)
(* and URL parsing are computed and not assumed.  A JSON value is a        *)
(* tagged record: None (null / Python None), Str, Dict (a function from    *)
(* key to value) or List.                                                  *)
(***************************************************************************)
EXTENDS Integers, Sequences, FiniteSets, TLC

None == [t |-> "null"]
Str(s) == [t |-> "str", s |-> s]
Dict(d) == [t |-> "dict", d |-> d]
List(l) == [t |-> "list", l |-> l]

\* Python truth value of a JSON value ("if not x").
Truthy(v) ==
    CASE v.t = "null" -> FALSE
      [] v.t = "str" -> v.s # <<>>
      [] v.t = "dict" -> DOMAIN v.d # {}
      [] v.t = "list" -> v.l # <<>>

\* dict.get(key, default) and "key in dict" on a Dict value.
Get(rec, key, default) == IF key \in DOMAIN rec.d THEN rec.d[key] ELSE default
Has(rec, key) == key \in DOMAIN rec.d
\* rec[key] = value (insert or overwrite).
Put(rec, key, value) ==
    Dict([k \in DOMAIN rec.d \cup {key} |-> IF k = key THEN value ELSE rec.d[k]])

Take(s, n) == SubSeq(s, 1, n)
Drop(s, n) == SubSeq(s, n + 1, Len(s))
\* str.find for a set of one-token delimiters: first index, 0 when absent.
Find(s, delims) ==
    IF \E i \in 1..Len(s) : s[i] \in delims
    THEN CHOOSE i \in 1..Len(s) :
            s[i] \in delims /\ \A j \in 1..(i - 1) : s[j] \notin delims
    ELSE 0

\* sep.join(parts) for a sequence of strs.
RECURSIVE Join(_, _)
Join(parts, sep) ==
    IF parts = <<>> THEN <<>>
    ELSE IF Len(parts) = 1 THEN parts[1]
    ELSE parts[1] \o sep \o Join(Tail(parts), sep)

\* str.split('/').
RECURSIVE Split(_)
Split(p) ==
    LET i == Find(p, {"/"})
    IN IF i = 0 THEN <<p>> ELSE <<Take(p, i - 1)>> \o Split(Drop(p, i))

(***************************************************************************)
(* urllib.parse, as far as urljoin uses it (no query, no params).         *)
(***************************************************************************)
\* Tokens made of scheme characters only, and their lower-case spelling.
SchemeWords == {"https", "HTTPS", "http", "ftp", "mailto"}
lower(tok) == IF tok = "HTTPS" THEN "https" ELSE tok
uses_relative == {<<>>, <<"ftp">>, <<"http">>, <<"https">>}
uses_netloc == {<<>>, <<"ftp">>, <<"http">>, <<"https">>}

\* urlsplit, last step: the fragment is cut off what is left after the
\* scheme and the netloc.
SplitFragment(sch, netloc, rest, h) ==
    [scheme |-> sch,
     netloc |-> netloc,
     path |-> IF h = 0 THEN rest ELSE Take(rest, h - 1),
     fragment |-> IF h = 0 THEN <<>> ELSE Drop(rest, h)]

SplitPath(sch, netloc, rest) == SplitFragment(sch, netloc, rest, Find(rest, {"#"}))

\* _splitnetloc(url, 2): the netloc ends at the first '/' or '#'.
SplitNetloc(sch, afterSlashes, d) ==
    IF d = 0 THEN SplitPath(sch, afterSlashes, <<>>)
    ELSE SplitPath(sch, Take(afterSlashes, d - 1), Drop(afterSlashes, d - 1))

SplitAfterScheme(sch, rest) ==
    IF rest # <<>> /\ rest[1] = "//"
    THEN SplitNetloc(sch, Drop(rest, 1), Find(Drop(rest, 1), {"/", "#"}))
    ELSE SplitPath(sch, <<>>, rest)

SplitScheme(url, scheme, i) ==
    IF i > 1 /\ \A j \in 1..(i - 1) : url[j] \in SchemeWords
    THEN SplitAfterScheme([j \in 1..(i - 1) |-> lower(url[j])], Drop(url, i))
    ELSE SplitAfterScheme(scheme, url)

urlsplit(url, scheme) == SplitScheme(url, scheme, Find(url, {":"}))

WithNetloc(netloc, url) ==
    <<"//">> \o netloc
    \o (IF url # <<>> /\ url[1] \notin {"/", "//"} THEN <<"/">> \o url ELSE url)
WithScheme(scheme, url) == IF scheme # <<>> THEN scheme \o <<":">> \o url ELSE url
WithFragment(url, fragment) == IF fragment # <<>> THEN url \o <<"#">> \o fragment ELSE url

urlunsplit(scheme, netloc, url, fragment) ==
    WithFragment(
        WithScheme(scheme,
                   IF netloc # <<>>
                      \/ (scheme # <<>> /\ scheme \in uses_netloc
                          /\ ~(url # <<>> /\ url[1] = "//"))
                   THEN WithNetloc(netloc, url)
                   ELSE url),
        fragment)

\* The loop of urljoin that removes dot segments.
RECURSIVE ResolveDots(_, _)
ResolveDots(segments, resolved) ==
    IF segments = <<>> THEN resolved
    ELSE IF Head(segments) = <<"..">>
    THEN ResolveDots(Tail(segments),
                     IF resolved = <<>> THEN resolved
                     ELSE Take(resolved, Len(resolved) - 1))
    ELSE IF Head(segments) = <<".">> THEN ResolveDots(Tail(segments), resolved)
    ELSE ResolveDots(Tail(segments), Append(resolved, Head(segments)))

\* segments[1:-1] = filter(None, segments[1:-1])
FilterMiddle(segments) ==
    IF Len(segments) <= 2 THEN segments
    ELSE <<segments[1]>>
         \o SelectSeq(SubSeq(segments, 2, Len(segments) - 1), LAMBDA x : x # <<>>)
         \o <<segments[Len(segments)]>>

\* base_parts: the base path without its last, non-directory item.
BaseParts(parts) ==
    IF parts[Len(parts)] # <<>> THEN Take(parts, Len(parts) - 1) ELSE parts

Segments(bpath, path) ==
    IF path[1] \in {"/", "//"} THEN Split(path)
    ELSE FilterMiddle(BaseParts(Split(bpath)) \o Split(path))

\* resolved_path, with '' appended after a last segment '.' or '..'.
ResolvedPath(segments, resolved) ==
    IF segments[Len(segments)] \in {<<".">>, <<"..">>}
    THEN Append(resolved, <<>>) ELSE resolved

OrSlash(path) == IF path = <<>> THEN <<"/">> ELSE path

MergedPath(segments) ==
    OrSlash(Join(ResolvedPath(segments, ResolveDots(segments, <<>>)), <<"/">>))

\* urljoin after both arguments are parsed: b the base, u the reference.
JoinParsed(b, u, url) ==
    IF u.scheme # b.scheme \/ u.scheme \notin uses_relative THEN url
    ELSE IF u.scheme \in uses_netloc /\ u.netloc # <<>>
    THEN urlunsplit(u.scheme, u.netloc, u.path, u.fragment)
    ELSE IF u.path = <<>>
    THEN urlunsplit(u.scheme,
                    IF u.scheme \in uses_netloc THEN b.netloc ELSE u.netloc,
                    b.path, u.fragment)
    ELSE urlunsplit(u.scheme,
                    IF u.scheme \in uses_netloc THEN b.netloc ELSE u.netloc,
                    MergedPath(Segments(b.path, u.path)), u.fragment)

JoinOnBase(b, url) == JoinParsed(b, urlsplit(url, b.scheme), url)

urljoin(base, url) ==
    IF base = <<>> THEN url
    ELSE IF url = <<>> THEN base
    ELSE JoinOnBase(urlsplit(base, <<>>), url)

\* Tokens whose spelling begins with the four characters "http".
HttpPrefixed == {"http", "https", "httpdocs"}
startswith_http(s) == s # <<>> /\ s[1] \in HttpPrefixed
startswith_hash(s) == s # <<>> /\ s[1] = "#"

normalize_url(url, base_url) ==
    IF ~Truthy(url) THEN None
    ELSE LET u == IF url.t = "dict" /\ Has(url, "@id") THEN url.d["@id"] ELSE url
         IN IF u.t = "str"
            THEN IF startswith_http(u.s) THEN u
                 ELSE IF startswith_hash(u.s) THEN Str(base_url \o u.s)
                 ELSE Str(urljoin(base_url, u.s))
            ELSE None

URL_KEYS == {"@id", "url", "contentUrl", "item", "sameAs"}

RECURSIVE normalize_urls_recursive(_, _)
normalize_urls_recursive(obj, base_url) ==
    IF obj.t = "dict"
    THEN Dict([key \in DOMAIN obj.d |->
                 IF key \in URL_KEYS THEN normalize_url(obj.d[key], base_url)
                 ELSE IF obj.d[key].t \in {"dict", "list"}
                      THEN normalize_urls_recursive(obj.d[key], base_url)
                      ELSE obj.d[key]])
    ELSE IF obj.t = "list"
    THEN List([i \in 1..Len(obj.l) |->
                 IF obj.l[i].t \in {"dict", "list"}
                 THEN normalize_urls_recursive(obj.l[i], base_url)
                 ELSE obj.l[i]])
    ELSE obj

\* Variant: only the primary key is copied to the alias.
MirrorType_PrimaryOnly(record) ==
    IF Has(record, "@type") /\ ~Has(record, "type")
    THEN Put(record, "type", record.d["@type"])
    ELSE record

\* Lines 104-108: copy the type alias that is missing.
MirrorType(record) ==
    IF Has(record, "@type") /\ ~Has(record, "type")
    THEN Put(record, "type", record.d["@type"])
    ELSE IF Has(record, "type") /\ ~Has(record, "@type")
    THEN Put(record, "@type", record.d["type"])
    ELSE record

create_comprehensive_record(item, source_url) ==
    LET r1 == Put(item, "_source_url", Str(source_url))
        r2 == Put(r1, "_extracted_at", None)
        r3 == MirrorType(r2)
    IN normalize_urls_recursive(r3, source_url)

\* str(value) for the values a format string receives here.
Format(v) ==
    CASE v.t = "str" -> v.s
      [] v.t = "null" -> <<"None">>

\* Python "a or b".
Or(a, b) == IF Truthy(a) THEN a ELSE b

\* Variant: 'name' is tried before 'url'.
create_unique_key_from_record_NameFirst(record) ==
    LET type_val == Get(record, "@type", Get(record, "type", Str(<<"Unknown">>)))
        type_str == IF type_val.t = "list"
                    THEN Join([i \in 1..Len(type_val.l) |-> type_val.l[i].s], <<"_">>)
                    ELSE Format(type_val)
        id0 == Get(record, "@id", None)
        id_val == IF Truthy(id0) THEN id0
                  ELSE Or(Or(Get(record, "name", None), Get(record, "url", None)),
                          Get(record, "headline", None))
    IN type_str \o <<":">> \o Format(id_val)

create_unique_key_from_record(record) ==
    LET type_val == Get(record, "@type", Get(record, "type", Str(<<"Unknown">>)))
        type_str == IF type_val.t = "list"
                    THEN Join([i \in 1..Len(type_val.l) |-> type_val.l[i].s], <<"_">>)
                    ELSE Format(type_val)
        id0 == Get(record, "@id", None)
        id_val == IF Truthy(id0) THEN id0
                  ELSE Or(Or(Get(record, "url", None), Get(record, "name", None)),
                          Get(record, "headline", None))
    IN type_str \o <<":">> \o Format(id_val)

content_types ==
    {"TechArticle", "Article", "WebPage", "HowTo", "ImageObject",
     "SoftwareSourceCode", "SoftwareApplication", "Organization",
     "CreativeWork", "Thing"}
skip_types == {"BreadcrumbList", "ListItem"}
content_fields ==
    {"name", "headline", "description", "text", "step", "contentUrl",
     "programmingLanguage", "codeSampleType"}

\* "t in content_types" for one element t of the type list: the list holds
\* whole strings, so a str is a member when it is that single word.
InNames(v, names) == v.t = "str" /\ Len(v.s) = 1 /\ v.s[1] \in names

\* Variant: the test for a missing type is left out.
should_include_record_NoTypeCheck(record) ==
    LET type_val == Get(record, "@type", Get(record, "type", None))
        type_list == IF type_val.t = "list" THEN type_val.l ELSE <<type_val>>
        has_content_type == \E i \in 1..Len(type_list) : InNames(type_list[i], content_types)
        has_skip_type == \E i \in 1..Len(type_list) : InNames(type_list[i], skip_types)
        has_content == \E field \in content_fields : Has(record, field)
    IN IF has_skip_type /\ ~has_content_type THEN FALSE
       ELSE has_content

\* Variant: a skip type rejects the record even next to a content type.
should_include_record_SkipWins(record) ==
    LET type_val == Get(record, "@type", Get(record, "type", None))
        type_list == IF type_val.t = "list" THEN type_val.l ELSE <<type_val>>
        has_skip_type == \E i \in 1..Len(type_list) : InNames(type_list[i], skip_types)
        has_content == \E field \in content_fields : Has(record, field)
    IN IF ~Truthy(type_val) THEN FALSE
       ELSE IF has_skip_type THEN FALSE
       ELSE has_content

should_include_record(record) ==
    LET type_val == Get(record, "@type", Get(record, "type", None))
        type_list == IF type_val.t = "list" THEN type_val.l ELSE <<type_val>>
        has_content_type == \E i \in 1..Len(type_list) : InNames(type_list[i], content_types)
        has_skip_type == \E i \in 1..Len(type_list) : InNames(type_list[i], skip_types)
        has_content == \E field \in content_fields : Has(record, field)
    IN IF ~Truthy(type_val) THEN FALSE
       ELSE IF has_skip_type /\ ~has_content_type THEN FALSE
       ELSE has_content

\* 'SoftwareSourceCode' in str(value)
RECURSIVE Mentions(_, _)
Mentions(v, word) ==
    CASE v.t = "str" -> \E i \in 1..Len(v.s) : v.s[i] = word
      [] v.t = "list" -> \E i \in 1..Len(v.l) : Mentions(v.l[i], word)
      [] v.t = "dict" -> \E k \in DOMAIN v.d : Mentions(v.d[k], word)
      [] v.t = "null" -> FALSE

\* Lines 214-219: the non-empty 'text' of every step that is a mapping.
RECURSIVE StepTexts(_)
StepTexts(steps) ==
    IF steps = <<>> THEN <<>>
    ELSE LET step == Head(steps)
             step_text == IF step.t = "dict" THEN Get(step, "text", Str(<<>>)) ELSE None
         IN (IF Truthy(step_text) THEN <<step_text.s>> ELSE <<>>) \o StepTexts(Tail(steps))

\* code_text.replace('\\n', '\n')
ReplaceEscapedNewlines(s) == [i \in 1..Len(s) |-> IF s[i] = "\\n" THEN "\n" ELSE s[i]]

\* Variant: the cleaned code replaces 'text' instead of going to a new field.
Enrich_InPlace(record) ==
    LET is_code == Get(record, "@type", None) = Str(<<"SoftwareSourceCode">>)
                   \/ Mentions(Get(record, "@type", List(<<>>)), "SoftwareSourceCode")
        code_text == Get(record, "text", Str(<<>>))
    IN IF is_code /\ Truthy(code_text)
       THEN Put(record, "text", Str(ReplaceEscapedNewlines(code_text.s)))
       ELSE record

\* Lines 211-228: the derived fields added before the record is yielded.
Enrich(record) ==
    LET step_texts == IF Has(record, "step") /\ record.d["step"].t = "list"
                      THEN StepTexts(record.d["step"].l) ELSE <<>>
        r1 == IF step_texts # <<>>
              THEN Put(record, "_step_content", Str(Join(step_texts, <<" ">>)))
              ELSE record
        is_code == Get(r1, "@type", None) = Str(<<"SoftwareSourceCode">>)
                   \/ Mentions(Get(r1, "@type", List(<<>>)), "SoftwareSourceCode")
        code_text == Get(r1, "text", Str(<<>>))
    IN IF is_code /\ Truthy(code_text)
       THEN Put(r1, "_code_content", Str(ReplaceEscapedNewlines(code_text.s)))
       ELSE r1

URLS_TO_PROCESS ==
    << <<"https", ":", "//", "dev.wrangles.io", "/", "en", "/", "excel", "/",
         "my_wrangles", "/", "extract">>,
       <<"https", ":", "//", "dev.wrangles.io", "/", "en", "/", "python", "/",
         "recipes", "/", "wrangles", "/", "extract">>,
       <<"https", ":", "//", "dev.wrangles.io", "/", "en", "/", "excel", "/",
         "extract">> >>

(***************************************************************************)
(* Inputs.                                                                 *)
(***************************************************************************)
S1(w) == Str(<<w>>)
Obj(d) == Dict(d)
HowToSteps == List(<<Obj("text" :> Str(<<"Do", "A">>)), Obj("text" :> Str(<<"Do", "B">>))>>)

\* Bound on the number of JSON-LD objects found in one run (total_found).
MaxFound == 3

\* Candidates found on the pages of a run.
RunPool ==
    { Obj("@type" :> S1("Article") @@ "name" :> S1("Foo")),
      Obj("type" :> S1("Article") @@ "name" :> S1("Foo") @@ "description" :> S1("d")),
      Obj("name" :> S1("Foo") @@ "description" :> S1("d")),
      Obj("@type" :> None @@ "headline" :> S1("Foo")),
      S1("x"),
      Obj("@type" :> S1("HowTo") @@ "@id" :> Str(<<"#", "h">>) @@ "name" :> S1("Foo")
          @@ "step" :> HowToSteps) }

VARIABLES
    pc,               \* control point of the script
    urlIdx,           \* index in URLS_TO_PROCESS of the loop variable url
    remaining,        \* objects of json_ld_objects not yet iterated
    item,             \* process_json_data_objects: the loop variable
    record,           \* process_json_data_objects: record
    unique_key,       \* process_json_data_objects: unique_key
    included,         \* result of the last should_include_record call
    processed_items,  \* the module-level set
    out,              \* lines of wrangles_to_load.jsonl, as records
    total_found, total_extracted, url_count,
    fetch_log,        \* history: outcome of each download, in order
    written_from,     \* history: the candidate each line of out came from
    passed,           \* history: key -> candidates that passed the filter with it
    failed_keys,      \* history: keys of the records whose write failed
    items_seen,       \* history: objects iterated by process_json_data_objects
    url_arg, url_res  \* normalize_url: argument, and the results of repeated calls

itemVars == <<item, record, unique_key, included>>
countVars == <<total_found, total_extracted, url_count>>
histVars == <<fetch_log, written_from, passed, failed_keys, items_seen>>
urlVars == <<url_arg, url_res>>
vars == <<pc, urlIdx, remaining, itemVars, processed_items, out, countVars, histVars, urlVars>>

source_url == URLS_TO_PROCESS[urlIdx]

\* State at line 252, before the first URL: output file cleared, counters 0.
Init ==
    /\ pc = "download" /\ urlIdx = 1 /\ remaining = 0
    /\ item = None /\ record = None /\ unique_key = <<>> /\ included = FALSE
    /\ processed_items = {} /\ out = <<>>
    /\ total_found = 0 /\ total_extracted = 0 /\ url_count = 0
    /\ fetch_log = <<>> /\ written_from = <<>> /\ passed = <<>>
    /\ failed_keys = {} /\ items_seen = 0
    /\ url_arg = None /\ url_res = <<>>

\* Variant: the exception is not caught and ends the run.
DownloadReturnsEmpty_Abort(outcome) ==
    /\ pc = "download"
    /\ pc' = "done"
    /\ fetch_log' = Append(fetch_log, [url |-> urlIdx, outcome |-> outcome])
    /\ UNCHANGED <<urlIdx, remaining, itemVars, processed_items, out, countVars,
                   written_from, passed, failed_keys, items_seen, urlVars>>

\* Lines 254-257 with download_and_extract_json_ld returning [] from one of
\* its two except clauses.
DownloadReturnsEmpty(outcome) ==
    /\ pc = "download"
    /\ pc' = "items" /\ remaining' = 0 /\ url_count' = 0
    /\ fetch_log' = Append(fetch_log, [url |-> urlIdx, outcome |-> outcome])
    /\ UNCHANGED <<urlIdx, itemVars, processed_items, out, total_found,
                   total_extracted, written_from, passed, failed_keys, items_seen,
                   urlVars>>

RequestFailed == DownloadReturnsEmpty("request_exception")
UnexpectedError == DownloadReturnsEmpty("exception")

\* Lines 254-257 with the download returning n extracted objects.
Downloaded ==
    /\ pc = "download"
    /\ \E n \in 0..(MaxFound - total_found) :
          /\ remaining' = n
          /\ total_found' = total_found + n
    /\ pc' = "items" /\ url_count' = 0
    /\ fetch_log' = Append(fetch_log, [url |-> urlIdx, outcome |-> "ok"])
    /\ UNCHANGED <<urlIdx, itemVars, processed_items, out, total_extracted,
                   written_from, passed, failed_keys, items_seen, urlVars>>

\* Lines 183-185: an object that is not a mapping is passed over.
NonMapping(it) ==
    /\ pc = "items" /\ remaining > 0
    /\ it.t # "dict"
    /\ item' = it /\ remaining' = remaining - 1 /\ items_seen' = items_seen + 1
    /\ UNCHANGED <<pc, urlIdx, record, unique_key, included, processed_items, out,
                   countVars, fetch_log, written_from, passed, failed_keys, urlVars>>

\* Lines 188-192: the record is built and the filter turns it down.
Rejected(it) ==
    /\ pc = "items" /\ remaining > 0
    /\ it.t = "dict"
    /\ LET rec == create_comprehensive_record(it, source_url)
       IN /\ ~should_include_record(rec)
          /\ record' = rec
    /\ item' = it /\ included' = FALSE
    /\ remaining' = remaining - 1 /\ items_seen' = items_seen + 1
    /\ UNCHANGED <<pc, urlIdx, unique_key, processed_items, out, countVars,
                   fetch_log, written_from, passed, failed_keys, urlVars>>

\* Variants: the set is never consulted; the key is never added.
Seen_Never(key) == FALSE
MarkSeen_Forget(key) == processed_items

\* Line 197: "unique_key not in processed_items", negated.
Seen(key) == key \in processed_items
\* Line 198: processed_items.add(unique_key).
MarkSeen(key) == processed_items \cup {key}

Bump(f, k) == IF k \in DOMAIN f THEN [f EXCEPT ![k] = @ + 1] ELSE f @@ (k :> 1)

\* Lines 195-197, 231-234: the key was seen before.
Duplicate(it) ==
    /\ pc = "items" /\ remaining > 0
    /\ it.t = "dict"
    /\ LET rec == create_comprehensive_record(it, source_url)
           key == create_unique_key_from_record(rec)
       IN /\ should_include_record(rec)
          /\ Seen(key)
          /\ record' = rec /\ unique_key' = key
          /\ passed' = Bump(passed, key)
    /\ item' = it /\ included' = TRUE
    /\ remaining' = remaining - 1 /\ items_seen' = items_seen + 1
    /\ UNCHANGED <<pc, urlIdx, processed_items, out, countVars, fetch_log,
                   written_from, failed_keys, urlVars>>

\* Lines 195-230: a new key is marked seen, the record enriched and yielded.
Accepted(it) ==
    /\ pc = "items" /\ remaining > 0
    /\ it.t = "dict"
    /\ LET rec == create_comprehensive_record(it, source_url)
           key == create_unique_key_from_record(rec)
       IN /\ should_include_record(rec)
          /\ ~Seen(key)
          /\ processed_items' = MarkSeen(key)
          /\ record' = Enrich(rec) /\ unique_key' = key
          /\ passed' = Bump(passed, key)
    /\ item' = it /\ included' = TRUE
    /\ remaining' = remaining - 1 /\ items_seen' = items_seen + 1
    /\ pc' = "write"
    /\ UNCHANGED <<urlIdx, out, countVars, fetch_log, written_from, failed_keys,
                   urlVars>>

\* Lines 259-263: the line is appended and both counters go up.
WriteOk ==
    /\ pc = "write"
    /\ out' = Append(out, record)
    /\ written_from' = Append(written_from, item)
    /\ url_count' = url_count + 1
    /\ total_extracted' = total_extracted + 1
    /\ pc' = "items"
    /\ UNCHANGED <<urlIdx, remaining, itemVars, processed_items, total_found,
                   fetch_log, passed, failed_keys, items_seen, urlVars>>

\* Variant: the counters go up although the write raised.
WriteFail_Counted ==
    /\ pc = "write"
    /\ failed_keys' = failed_keys \cup {unique_key}
    /\ url_count' = url_count + 1
    /\ total_extracted' = total_extracted + 1
    /\ pc' = "items"
    /\ UNCHANGED <<urlIdx, remaining, itemVars, processed_items, out, total_found,
                   fetch_log, written_from, passed, items_seen, urlVars>>

\* Lines 264-265: the write raised; the error is printed, the loop goes on.
WriteFail ==
    /\ pc = "write"
    /\ failed_keys' = failed_keys \cup {unique_key}
    /\ pc' = "items"
    /\ UNCHANGED <<urlIdx, remaining, itemVars, processed_items, out, countVars,
                   fetch_log, written_from, passed, items_seen, urlVars>>

\* Line 267 and the next iteration of the for loop of line 252.
EndUrl ==
    /\ pc = "items" /\ remaining = 0
    /\ IF urlIdx < Len(URLS_TO_PROCESS)
       THEN pc' = "download" /\ urlIdx' = urlIdx + 1
       ELSE pc' = "report" /\ urlIdx' = urlIdx
    /\ UNCHANGED <<remaining, itemVars, processed_items, out, countVars, histVars,
                   urlVars>>

\* Lines 269-308: the end-of-run report.
Report ==
    /\ pc = "report"
    /\ pc' = "done"
    /\ UNCHANGED <<urlIdx, remaining, itemVars, processed_items, out, countVars,
                   histVars, urlVars>>

Next ==
    \/ RequestFailed
    \/ UnexpectedError
    \/ Downloaded
    \/ \E it \in RunPool : NonMapping(it)
    \/ \E it \in RunPool : Rejected(it)
    \/ \E it \in RunPool : Duplicate(it)
    \/ \E it \in RunPool : Accepted(it)
    \/ WriteOk
    \/ WriteFail
    \/ EndUrl
    \/ Report

Spec == Init /\ [][Next]_vars

\* The script is one sequential thread: whenever a step is possible, one is
\* taken.
FairSpec == Spec /\ WF_vars(Next)

(***************************************************************************)
(* The record pipeline on one candidate: create_comprehensive_record,      *)
(* should_include_record, create_unique_key_from_record and the            *)
(* enrichment, applied in the order of lines 188-230.                      *)
(***************************************************************************)
Opt(key, values) == {<<>>} \cup {key :> v : v \in values}

AbsUrl == <<"https", ":", "//", "h", "/", "p">>
UpperSchemeUrl == <<"HTTPS", ":", "//", "h", "/", "p">>
CodeText == <<"print(1)", "\\n", "print(2)">>

FnTypes ==
    { None, Str(<<>>), List(<<>>), S1("Article"), S1("BreadcrumbList"), S1("Person"),
      S1("SoftwareSourceCode"),
      List(<<S1("BreadcrumbList"), S1("Article")>>),
      List(<<S1("ListItem"), S1("Person")>>),
      List(<<S1("Person"), S1("Widget")>>) }
FnAliasTypes == {None, S1("Article"), S1("Thing")}
FnIds == {Str(<<>>), Str(<<"#", "h">>), Str(AbsUrl), Str(UpperSchemeUrl)}
FnNames == {Str(<<>>), S1("Foo")}
FnHeadlines == {Str(<<>>), S1("Bar")}
FnExtras ==
    { <<>>,
      "url" :> Str(<<"a", "/", "b">>),
      "description" :> S1("d"),
      "author" :> Obj("@id" :> Str(<<"/", "people">>) @@ "name" :> S1("X")),
      "text" :> Str(CodeText),
      "step" :> HowToSteps,
      "_source_url" :> S1("elsewhere"),
      "sameAs" :> List(<<Str(AbsUrl)>>) }

FnPool ==
    { Obj(a @@ b @@ c @@ d @@ e @@ f) :
        a \in Opt("@type", FnTypes), b \in Opt("type", FnAliasTypes),
        c \in Opt("@id", FnIds), d \in Opt("name", FnNames),
        e \in Opt("headline", FnHeadlines), f \in FnExtras }

InitFn ==
    /\ pc = "fn_record" /\ urlIdx \in 1..Len(URLS_TO_PROCESS) /\ remaining = 0
    /\ item \in FnPool
    /\ record = None /\ unique_key = <<>> /\ included = FALSE
    /\ processed_items = {} /\ out = <<>>
    /\ total_found = 0 /\ total_extracted = 0 /\ url_count = 0
    /\ fetch_log = <<>> /\ written_from = <<>> /\ passed = <<>>
    /\ failed_keys = {} /\ items_seen = 0
    /\ url_arg = None /\ url_res = <<>>

fnFrame == <<urlIdx, remaining, item, processed_items, out, countVars, histVars, urlVars>>

FnRecord ==
    /\ pc = "fn_record"
    /\ record' = create_comprehensive_record(item, source_url)
    /\ pc' = "fn_filter"
    /\ UNCHANGED <<fnFrame, unique_key, included>>

FnFilter ==
    /\ pc = "fn_filter"
    /\ included' = should_include_record(record)
    /\ pc' = IF included' THEN "fn_key" ELSE "fn_skipped"
    /\ UNCHANGED <<fnFrame, record, unique_key>>

FnKey ==
    /\ pc = "fn_key"
    /\ unique_key' = create_unique_key_from_record(record)
    /\ pc' = "fn_enrich"
    /\ UNCHANGED <<fnFrame, record, included>>

FnEnrich ==
    /\ pc = "fn_enrich"
    /\ record' = Enrich(record)
    /\ pc' = "fn_yield"
    /\ UNCHANGED <<fnFrame, unique_key, included>>

NextFn == FnRecord \/ FnFilter \/ FnKey \/ FnEnrich

SpecFn == InitFn /\ [][NextFn]_vars

(***************************************************************************)
(* normalize_url applied to a value, and again to its own result.          *)
(***************************************************************************)
UrlStrings ==
    { <<>>, AbsUrl, UpperSchemeUrl, <<"http", ":", "//", "h">>,
      <<"ftp", ":", "//", "h", "/", "p">>, <<"mailto", ":", "a">>,
      <<"#", "h">>, <<"a">>, <<"/", "a">>, <<"..", "/", "a">>, <<"a", "/", "b", "#", "f">>,
      <<"httpdocs", "/", "a">>, <<"//", "h", "/", "a">> }
UrlArgs ==
    {None, Obj(<<>>), Obj("name" :> S1("Foo")), Obj("@id" :> None),
     List(<<Str(AbsUrl)>>)}
    \cup {Str(u) : u \in UrlStrings}
    \cup {Obj("@id" :> Str(u)) : u \in UrlStrings}

InitUrl ==
    /\ pc = "url" /\ urlIdx \in 1..Len(URLS_TO_PROCESS) /\ remaining = 0
    /\ item = None /\ record = None /\ unique_key = <<>> /\ included = FALSE
    /\ processed_items = {} /\ out = <<>>
    /\ total_found = 0 /\ total_extracted = 0 /\ url_count = 0
    /\ fetch_log = <<>> /\ written_from = <<>> /\ passed = <<>>
    /\ failed_keys = {} /\ items_seen = 0
    /\ url_arg \in UrlArgs /\ url_res = <<>>

NormalizeUrl ==
    /\ pc = "url" /\ Len(url_res) < 2
    /\ url_res' = Append(url_res,
                         normalize_url(IF url_res = <<>> THEN url_arg
                                       ELSE url_res[Len(url_res)], source_url))
    /\ UNCHANGED <<pc, urlIdx, remaining, itemVars, processed_items, out, countVars,
                   histVars, url_arg>>

NextUrl == NormalizeUrl

SpecUrl == InitUrl /\ [][NextUrl]_vars
(***************************************************************************)
(* Properties of the record pipeline (SpecFn).                             *)
(***************************************************************************)
Normalized == pc \in {"fn_filter", "fn_key", "fn_enrich", "fn_skipped", "fn_yield"}
Filtered == pc \in {"fn_key", "fn_enrich", "fn_skipped", "fn_yield"}
TYPE_KEYS == {"@type", "type"}

\* C3, as stated: once either type key is present in the candidate, the
\* normalized record holds both keys with equal values, also when the
\* candidate already carried both.
C3_TypeKeysPresentAndEqual ==
    (Normalized /\ \E k \in TYPE_KEYS : Has(item, k))
        => /\ Has(record, "@type") /\ Has(record, "type")
           /\ record.d["@type"] = record.d["type"]

\* C3, amended: a candidate with exactly one type key gets the other key with
\* the same value; a candidate with both keeps each value as it was, equal or
\* not; a candidate with neither gets neither.
C3_MissingTypeKeyCopied ==
    Normalized =>
        /\ \A k \in TYPE_KEYS : Has(record, k) <=> \E j \in TYPE_KEYS : Has(item, j)
        /\ \A k \in TYPE_KEYS :
              Has(record, k) =>
                 record.d[k] = IF Has(item, k) THEN item.d[k]
                               ELSE item.d[CHOOSE j \in TYPE_KEYS : j # k]

C3_Witness ==
    /\ Normalized
    /\ Has(item, "@type") /\ ~Has(item, "type")
    /\ Has(record, "type") /\ record.d["type"] = item.d["@type"]
    /\ Truthy(item.d["@type"])

\* The type the filter reads: the primary key when the record has it, the
\* alias otherwise; and its list form as a set of type names.
DeclaredType(rec) == IF Has(rec, "@type") THEN rec.d["@type"] ELSE Get(rec, "type", None)
TypeNames(rec) ==
    LET tv == DeclaredType(rec)
    IN CASE tv.t = "list" -> {tv.l[i].s : i \in 1..Len(tv.l)}
         [] tv.t = "str" -> {tv.s}
         [] OTHER -> {}
Words(names) == {<<w>> : w \in names}
HasIndicator(rec) == DOMAIN rec.d \cap content_fields # {}

C5_FieldsUnchanged ==
    pc = "fn_yield" =>
        \A k \in DOMAIN item.d \ URL_KEYS : Has(record, k) /\ record.d[k] = item.d[k]

RECURSIVE ContainsUrlKey(_)
ContainsUrlKey(v) ==
    CASE v.t = "dict" -> \E k \in DOMAIN v.d : k \in URL_KEYS \/ ContainsUrlKey(v.d[k])
      [] v.t = "list" -> \E i \in 1..Len(v.l) : ContainsUrlKey(v.l[i])
      [] OTHER -> FALSE

DERIVED_KEYS == {"_source_url", "_extracted_at", "_step_content", "_code_content"}

\* C5, amended: every top-level field of a yielded candidate whose key is
\* neither URL-bearing nor one of the keys the script itself sets is in the
\* output record, and its value is unchanged when no URL-bearing key is
\* nested in it.
C5_FieldsKeptOutsideUrlAndDerivedKeys ==
    pc = "fn_yield" =>
        \A k \in DOMAIN item.d \ (URL_KEYS \cup DERIVED_KEYS) :
            /\ Has(record, k)
            /\ ~ContainsUrlKey(item.d[k]) => record.d[k] = item.d[k]

C5_Witness ==
    /\ pc = "fn_yield"
    /\ Has(record, "_code_content")
    /\ Has(item, "text") /\ record.d["text"] = item.d["text"]
    /\ Has(item, "@id") /\ record.d["@id"] # item.d["@id"]

ID_FIELDS == <<"@id", "url", "name", "headline">>
TypeText(rec) ==
    LET tv == DeclaredType(rec)
    IN IF tv.t = "list" THEN Join([i \in 1..Len(tv.l) |-> tv.l[i].s], <<"_">>) ELSE tv.s

\* C7, as stated: the key is "<type>:<id>" with <id> the value of the first
\* of '@id', 'url', 'name', 'headline' that is present in the normalized
\* record.
C7_KeyUsesFirstPresentField ==
    (pc = "fn_enrich" /\ \E i \in 1..4 : Has(record, ID_FIELDS[i])) =>
        LET first == CHOOSE i \in 1..4 :
                        /\ Has(record, ID_FIELDS[i])
                        /\ \A j \in 1..(i - 1) : ~Has(record, ID_FIELDS[j])
        IN unique_key = TypeText(record) \o <<":">> \o Format(record.d[ID_FIELDS[first]])

\* C7, amended: <id> is the value of the first of the four fields whose value
\* in the normalized record is non-empty; when none is, <id> is the text of
\* the 'headline' value, "None" when that is absent or null.
C7_KeyUsesFirstNonEmptyField ==
    pc = "fn_enrich" =>
        LET filled == {i \in 1..4 : Truthy(Get(record, ID_FIELDS[i], None))}
            first == CHOOSE i \in filled : \A j \in filled : i <= j
            id == IF filled # {} THEN record.d[ID_FIELDS[first]]
                  ELSE Get(record, "headline", None)
        IN unique_key = TypeText(record) \o <<":">> \o Format(id)

C7_Witness ==
    /\ pc = "fn_enrich"
    /\ DeclaredType(record).t = "list"
    /\ Has(record, "@id") /\ ~Truthy(record.d["@id"])
    /\ ~Has(record, "url") /\ Has(record, "name") /\ Truthy(record.d["name"])
    /\ unique_key = TypeText(record) \o <<":">> \o record.d["name"].s

(***************************************************************************)
(* Properties of normalize_url (SpecUrl).                                  *)
(***************************************************************************)
\* A str with a scheme, "scheme:...".
IsAbsolute(s) == Len(s) >= 2 /\ s[1] \in SchemeWords /\ s[2] = ":"
\* The URL a value is, or holds under '@id'.
UrlHeld(v) ==
    IF v.t = "dict" /\ Has(v, "@id") THEN v.d["@id"] ELSE v

\* C6: a value that is or holds an already-absolute URL normalizes to that
\* same URL, and normalizing a result again returns it unchanged.
C6_AbsoluteUnchangedAndIdempotent ==
    /\ (Len(url_res) >= 1 /\ UrlHeld(url_arg).t = "str" /\ IsAbsolute(UrlHeld(url_arg).s))
          => url_res[1] = UrlHeld(url_arg)
    /\ Len(url_res) = 2 => url_res[2] = url_res[1]

\* What does hold: URLs that begin with "http" or whose scheme is not the
\* page's are returned as they are, and a second call changes nothing.
NormalizeUrlHttpUnchangedAndIdempotent ==
    /\ (/\ Len(url_res) >= 1 /\ UrlHeld(url_arg).t = "str"
        /\ IsAbsolute(UrlHeld(url_arg).s)
        /\ \/ startswith_http(UrlHeld(url_arg).s)
           \/ lower(UrlHeld(url_arg).s[1]) # source_url[1])
          => url_res[1] = UrlHeld(url_arg)
    /\ Len(url_res) = 2 => url_res[2] = url_res[1]
(***************************************************************************)
(* Properties of a run (Spec, FairSpec).                                   *)
(***************************************************************************)
KeyOf(rec) == create_unique_key_from_record(rec)
Lines(key) == {i \in 1..Len(out) : KeyOf(out[i]) = key}
SourceOf(rec) == rec.d["_source_url"].s
NoTwoLinesShareAKey ==
    \A i, j \in 1..Len(out) : i # j => KeyOf(out[i]) # KeyOf(out[j])
\* The record that was yielded and is not written yet.
Pending(key) == pc = "write" /\ key = unique_key

\* C1, as stated: no two lines have the same Identity Key, and a key that two
\* or more candidates passed the filter with has exactly one line at the end
\* of the run.
C1_ExactlyOneLinePerRepeatedKey ==
    /\ NoTwoLinesShareAKey
    /\ pc = "done" =>
          \A key \in DOMAIN passed : passed[key] >= 2 => Cardinality(Lines(key)) = 1

\* C1, amended: no two lines have the same Identity Key; a key that candidates
\* passed the filter with has exactly one line once the write of the first of
\* them has succeeded, and none when that write failed: every later candidate
\* is dropped either way.
C1_OneLinePerKeyUnlessWriteFailed ==
    /\ NoTwoLinesShareAKey
    /\ \A key \in DOMAIN passed :
          Cardinality(Lines(key)) = IF key \in failed_keys \/ Pending(key) THEN 0 ELSE 1

C1_Witness ==
    /\ pc = "done"
    /\ \E key \in DOMAIN passed :
          /\ passed[key] >= 2 /\ Cardinality(Lines(key)) = 1
          /\ Len(fetch_log) = 3 /\ total_found = 2 /\ fetch_log[1].outcome = "ok"
          /\ fetch_log[3].outcome = "ok" /\ SourceOf(out[1]) = URLS_TO_PROCESS[1]

NoDeclaredType(c) ==
    /\ c.t = "dict"
    /\ ~Truthy(Get(c, "@type", None))
    /\ ~Truthy(Get(c, "type", None))

\* C2: a candidate without '@type' and 'type', or with null or empty values
\* there, is turned down by should_include_record and no line of the output
\* comes from it.
C2_UntypedNeverRetained ==
    /\ \A i \in 1..Len(written_from) : ~NoDeclaredType(written_from[i])
    /\ NoDeclaredType(item) => ~included /\ pc # "write"

C2_Witness ==
    /\ NoDeclaredType(item) /\ Has(item, "name") /\ Has(item, "description")
    /\ record.d["name"] = item.d["name"]
    /\ ~included /\ pc = "items" /\ Len(out) = 1

FailedUrls == {fetch_log[i].url : i \in {j \in 1..Len(fetch_log) : fetch_log[j].outcome # "ok"}}
IsPrefix(s, t) == Len(s) <= Len(t) /\ SubSeq(t, 1, Len(s)) = s

LinesFrom(url) == {i \in 1..Len(out) : SourceOf(out[i]) = url}

\* C9: a failed write leaves the record out of the file and out of both
\* counters, and the loop goes on with the objects that remain, on this URL
\* and the next ones.
C9_WriteFailureIsolated ==
    /\ [](\A i \in 1..Len(out) : KeyOf(out[i]) \notin failed_keys)
    /\ [](total_extracted = Len(out))
    /\ [](pc \in {"items", "write"} => url_count = Cardinality(LinesFrom(source_url)))
    /\ [](pc \in {"report", "done"} => items_seen = total_found)
    /\ [][WriteFail => /\ out' = out /\ countVars' = countVars
                       /\ pc' = "items" /\ remaining' = remaining
                       /\ urlIdx' = urlIdx]_vars

C9_Witness ==
    /\ pc = "done"
    /\ \E key \in failed_keys : passed[key] = 1
    /\ Len(out) = 2 /\ total_found = 3 /\ Cardinality(LinesFrom(URLS_TO_PROCESS[1])) = 1
    /\ fetch_log[1].outcome = "ok" /\ fetch_log[2].outcome = "ok"
    /\ fetch_log[3].outcome # "ok"

\* C10, as stated: at the end of a run every key in processed_items has
\* exactly one line and every line has its key in processed_items.
C10_SetAndFileAgree ==
    pc = "done" =>
        /\ \A key \in processed_items : Cardinality(Lines(key)) = 1
        /\ \A i \in 1..Len(out) : KeyOf(out[i]) \in processed_items

\* C10, amended: at the end of a run every line has its key in
\* processed_items, and every key in processed_items has exactly one line
\* unless the write of its record failed, in which case it has none.
C10_SetCoversFileAndFailedWrites ==
    pc = "done" =>
        /\ \A i \in 1..Len(out) : KeyOf(out[i]) \in processed_items
        /\ \A key \in processed_items :
              Cardinality(Lines(key)) = IF key \in failed_keys THEN 0 ELSE 1

C10_Witness ==
    /\ pc = "done"
    /\ Cardinality(processed_items) = 3 /\ Cardinality(failed_keys) = 1
    /\ Len(out) = 2
====
